---- MODULE Spec2Model ----
(***************************************************************************)
(* Model of the asynchronous read-ahead reader of klauspost/readahead     *)
(* (reader.go).  One background fetch goroutine fills buffers taken from   *)
(* the reuse channel and publishes them on the ready channel; the          *)
(* consumer calls Read, WriteTo, Seek and Close.                           *)
(***************************************************************************)
EXTENDS Integers, Sequences, FiniteSets, TLC

\* ---- bounds of the exploration ----
DataLen == 3        \* length of the source's byte sequence
MaxBuffers == 2     \* largest number of buffers (pool depth) explored
MaxSize == 2        \* largest buffer size explored
MaxReadLen == 2     \* largest len(p) passed to Read

\* The source's bytes B1..Bn, all different and different from the zero
\* byte a fresh buffer holds.
Data == [i \in 1..DataLen |-> i]

\* ---- error values ----
ErrNil == "nil"
EOF == "EOF"
ErrSource == "some error"
ErrPanic == "panic reading"
ErrClosed == "readahead: read after Close"
ErrSink == "sink error"
ErrSeek == "wrong offset"
ErrCloser == "an error"

SeekStart == 0
SeekCurrent == 1
SeekEnd == 2

Min(x, y) == IF x < y THEN x ELSE y

\* ---- buffer (reader.go: type buffer) ----
\* The nil *buffer.  id stands for the pointer: which buffer this is.
NoBuf == [buf |-> <<>>, offset |-> 0, err |-> ErrNil, id |-> 0]

\* newBuffer: size zero bytes, offset 0, no error.
newBuffer(sz) == [buf |-> [j \in 1..sz |-> 0], offset |-> 0, err |-> ErrNil, id |-> 0]

\* Mutant of newPool: one buffer more than the channels can hold.
newPool_extra(n, sz) == [i \in 1..(n + 1) |-> [newBuffer(sz) EXCEPT !.id = i]]

\* The pool reader.init puts on reuse: n new buffers, each its own.
newPool(n, sz) == [i \in 1..n |-> [newBuffer(sz) EXCEPT !.id = i]]

isEmpty(bf) == IF bf = NoBuf THEN TRUE ELSE Len(bf.buf) - bf.offset <= 0

\* Mutant of buffer: the offset is ignored.
buffer_whole(bf) == bf.buf

\* b.buf[b.offset:]
buffer(bf) == SubSeq(bf.buf, bf.offset + 1, Len(bf.buf))

\* Mutant of inc: the cursor jumps to the end of the valid bytes.
inc_whole(bf, n) == [bf EXCEPT !.offset = Len(bf.buf)]

\* b.inc(n): b.offset += n
inc(bf, n) == [bf EXCEPT !.offset = bf.offset + n]

\* Mutant of copy: the whole source slice is handed over.
copy_all(n, src) == src

\* copy(p, src) with len(p) = n: the bytes copied.
copy(n, src) == SubSeq(src, 1, Min(n, Len(src)))

\* ---- the upstream source (a.in) ----
\* Outcomes of one pull rd.Read(p) with len(p) = sz at position pos:
\* the number of bytes, the status, and whether the pull panicked.  The
\* source delivers its bytes in any chunking and ends in end-of-data; it may
\* instead fail or panic at any pull.  A position outside the data makes the
\* slice expression of SeekerBuffer.Read panic.
SourceRead(pos, sz) ==
    IF pos < 0 \/ pos > DataLen
    THEN {[n |-> 0, err |-> ErrNil, panic |-> TRUE]}
    ELSE LET avail == DataLen - pos IN
         (IF avail = 0
          THEN {[n |-> 0, err |-> EOF, panic |-> FALSE]}
          ELSE {[n |-> k, err |-> ErrNil, panic |-> FALSE] : k \in 1..Min(sz, avail)}
               \cup (IF avail <= sz
                     THEN {[n |-> avail, err |-> EOF, panic |-> FALSE]}
                     ELSE {}))
         \cup {[n |-> k, err |-> ErrSource, panic |-> FALSE] : k \in 0..Min(sz, avail)}
         \cup {[n |-> 0, err |-> ErrNil, panic |-> TRUE]}

\* Mutant of read: a panic of the pull leaves the buffer as it was.
read_silent(bf, pos, r) ==
    IF r.panic
    THEN bf
    ELSE [bf EXCEPT !.err = r.err,
                    !.buf = SubSeq(Data, pos + 1, pos + r.n),
                    !.offset = 0]

\* Mutant of read: the pull does not reset the cursor.
read_stale(bf, pos, r) ==
    IF r.panic
    THEN [bf EXCEPT !.err = ErrPanic]
    ELSE [bf EXCEPT !.err = r.err,
                    !.buf = SubSeq(Data, pos + 1, pos + r.n)]

\* buffer.read: the buffer after the pull with outcome r at position pos.
\* A recovered panic stores the error and leaves buf and offset alone.
read(bf, pos, r) ==
    IF r.panic
    THEN [bf EXCEPT !.err = ErrPanic]
    ELSE [bf EXCEPT !.err = r.err,
                    !.buf = SubSeq(Data, pos + 1, pos + r.n),
                    !.offset = 0]

\* SeekerBuffer.Seek: the resulting position, or failure.
SourceSeek(pos, offset, whence) ==
    IF offset > DataLen
    THEN [res |-> 0, err |-> ErrSeek, pos |-> pos]
    ELSE LET r == IF whence = SeekStart THEN offset
                  ELSE IF whence = SeekCurrent THEN pos + offset
                  ELSE DataLen + offset
         IN [res |-> r, err |-> ErrNil, pos |-> r]

VARIABLES
    in,          \* a.in: [pos] of the upstream source
    closer,      \* a.closer != nil
    owner,       \* the stream was built with a closer (NewReadCloserSize)
    err,         \* a.err
    ready,       \* a.ready: buffers queued on the channel
    readyClosed, \* close(a.ready) has happened
    reuse,       \* a.reuse
    exited,      \* close(a.exited) has happened
    cur,         \* a.cur
    size,        \* a.size
    buffers,     \* a.buffers
    gpc,         \* position of the fetch goroutine
    b,           \* the goroutine's local b
    berr,        \* the goroutine's local err
    cop,         \* the consumer's call in progress
    cpc,         \* the consumer's position in that call
    arg,         \* the call's arguments and locals
    out,         \* bytes delivered to the consumer since the last reposition
    base,        \* position the consumer was told by the last successful Seek
    ret,         \* the last call's return values
    hist         \* history of the run

vars == <<in, closer, owner, err, ready, readyClosed, reuse, exited, cur, size, buffers,
          gpc, b, berr, cop, cpc, arg, out, base, ret, hist>>

\* n: len(p) of Read, or WriteTo's running count; offset, whence: Seek's
\* arguments; want: the position this Seek asks for; from: bytes delivered
\* before this WriteTo; first: no Close had returned before this one; was:
\* a.err when WriteTo or Seek was called; pulls: pulls of the source
\* completed since this Close or Seek was called.
NoArg == [n |-> 0, offset |-> 0, whence |-> 0, want |-> 0, from |-> 0,
          first |-> FALSE, was |-> ErrNil, pulls |-> 0]
NoRet == [op |-> "none", n |-> 0, err |-> ErrNil, was |-> ErrNil]

NoSeek == [state |-> "none", whence |-> 0]

InitHist ==
    [latched |-> ErrNil,   \* terminal condition a Read has returned
     closerCalls |-> 0,    \* invocations of the upstream Close (capped at 2)
     closerRet |-> ErrNil, \* what the upstream Close returned
     closed |-> FALSE,     \* a Close() has returned
     afterClose |-> FALSE, \* a Close() has returned and no Seek was called since
     seek |-> NoSeek,      \* the last Seek call and its outcome
     term |-> ErrNil,      \* first terminal status a pull of this pipeline yielded
     drained |-> FALSE,    \* a WriteTo reached end-of-data and returned nil, and
                           \* no Close or Seek was called since
     tasks |-> 1]          \* goroutines started by init and not yet ended
                           \* (capped at 2)

\* reader.init: fresh channels, a pool of `buffers` buffers on reuse,
\* cur and err cleared, the goroutine started.  The smallest and the largest
\* pool depth and buffer size are explored, with and without a closer.
Init ==
    /\ buffers \in {1, MaxBuffers}
    /\ size \in {1, MaxSize}
    /\ closer \in BOOLEAN
    /\ in = [pos |-> 0]
    /\ err = ErrNil
    /\ ready = <<>>
    /\ readyClosed = FALSE
    /\ reuse = newPool(buffers, size)
    /\ exited = FALSE
    /\ cur = NoBuf
    /\ owner = closer
    /\ gpc = "select"
    /\ b = NoBuf
    /\ berr = ErrNil
    /\ cop = "none"
    /\ cpc = "idle"
    /\ arg = NoArg
    /\ out = <<>>
    /\ base = 0
    /\ ret = NoRet
    /\ hist = InitHist

\* ---- the fetch goroutine (reader.init, go func) ----

\* Mutant of GoTake: with no idle buffer the goroutine makes a new one.
GoTake_fresh ==
    /\ gpc = "select"
    /\ b' = IF reuse # <<>> THEN Head(reuse) ELSE newBuffer(size)
    /\ reuse' = IF reuse # <<>> THEN Tail(reuse) ELSE reuse
    /\ gpc' = "read"
    /\ UNCHANGED <<in, closer, owner, err, ready, readyClosed, exited, cur, size, buffers,
                   berr, cop, cpc, arg, out, base, ret, hist>>

\* Mutant of GoTake: the buffer taken stays on reuse.
GoTake_keep ==
    /\ gpc = "select"
    /\ reuse # <<>>
    /\ b' = Head(reuse)
    /\ gpc' = "read"
    /\ UNCHANGED <<in, closer, owner, err, ready, readyClosed, reuse, exited, cur, size, buffers,
                   berr, cop, cpc, arg, out, base, ret, hist>>

\* select case b := <-a.reuse
GoTake ==
    /\ gpc = "select"
    /\ reuse # <<>>
    /\ b' = Head(reuse)
    /\ reuse' = Tail(reuse)
    /\ gpc' = "read"
    /\ UNCHANGED <<in, closer, owner, err, ready, readyClosed, exited, cur, size, buffers,
                   berr, cop, cpc, arg, out, base, ret, hist>>

\* The terminal status of a pull with outcome r, nil if it has none.
status(r) == IF r.panic THEN ErrPanic ELSE r.err

\* err := b.read(a.in)
GoRead ==
    /\ gpc = "read"
    /\ \E r \in SourceRead(in.pos, size) :
          /\ b' = read(b, in.pos, r)
          /\ berr' = b'.err
          /\ in' = [pos |-> in.pos + r.n]
          /\ hist' = [hist EXCEPT !.term = IF @ = ErrNil THEN status(r) ELSE @]
    /\ arg' = IF cop \in {"Close", "Seek"} THEN [arg EXCEPT !.pulls = @ + 1] ELSE arg
    /\ gpc' = "publish"
    /\ UNCHANGED <<closer, owner, err, ready, readyClosed, reuse, exited, cur, size, buffers,
                   cop, cpc, out, base, ret>>

\* Mutant of GoPublish: after a failure other than end-of-data the
\* goroutine goes round its loop again.
GoPublish_retry ==
    /\ gpc = "publish"
    /\ Len(ready) < buffers
    /\ ready' = Append(ready, b)
    /\ b' = NoBuf
    /\ gpc' = IF berr = EOF THEN "closeReady" ELSE "select"
    /\ UNCHANGED <<in, closer, owner, err, readyClosed, reuse, exited, cur, size, buffers,
                   berr, cop, cpc, arg, out, base, ret, hist>>

\* Mutant of GoPublish: the goroutine goes on holding the buffer it sent.
GoPublish_keep ==
    /\ gpc = "publish"
    /\ Len(ready) < buffers
    /\ ready' = Append(ready, b)
    /\ gpc' = IF berr # ErrNil THEN "closeReady" ELSE "select"
    /\ UNCHANGED <<in, closer, owner, err, readyClosed, reuse, exited, cur, size, buffers,
                   b, berr, cop, cpc, arg, out, base, ret, hist>>

\* a.ready <- b; if err != nil { return }
GoPublish ==
    /\ gpc = "publish"
    /\ Len(ready) < buffers
    /\ ready' = Append(ready, b)
    /\ b' = NoBuf
    /\ gpc' = IF berr # ErrNil THEN "closeReady" ELSE "select"
    /\ UNCHANGED <<in, closer, owner, err, readyClosed, reuse, exited, cur, size, buffers,
                   berr, cop, cpc, arg, out, base, ret, hist>>

\* Mutant of GoExit: the stop signal is taken wherever the goroutine is,
\* also with a buffer in its hands.
GoExit_anywhere ==
    /\ gpc \in {"select", "read", "publish"}
    /\ cpc = "sel"
    /\ gpc' = "closeReady"
    /\ cpc' = "wait"
    /\ UNCHANGED <<in, closer, owner, err, ready, readyClosed, reuse, exited, cur, size, buffers,
                   b, berr, cop, arg, out, base, ret, hist>>

\* Mutant of GoExit: the goroutine takes the stop signal and goes round its
\* loop again.
GoExit_loop ==
    /\ gpc = "select"
    /\ cpc = "sel"
    /\ gpc' = "select"
    /\ cpc' = "wait"
    /\ UNCHANGED <<in, closer, owner, err, ready, readyClosed, reuse, exited, cur, size, buffers,
                   b, berr, cop, arg, out, base, ret, hist>>

\* select case <-a.exit, meeting the consumer's a.exit <- struct{}{}
\* in Close or Seek (the channel is unbuffered).
GoExit ==
    /\ gpc = "select"
    /\ cpc = "sel"
    /\ gpc' = "closeReady"
    /\ cpc' = "wait"
    /\ UNCHANGED <<in, closer, owner, err, ready, readyClosed, reuse, exited, cur, size, buffers,
                   b, berr, cop, arg, out, base, ret, hist>>

\* Mutant of GoCloseReady: the goroutine leaves a.ready open.
GoCloseReady_skip ==
    /\ gpc = "closeReady"
    /\ gpc' = "closeExited"
    /\ UNCHANGED <<in, closer, owner, err, ready, readyClosed, reuse, exited, cur, size,
                   buffers, b, berr, cop, cpc, arg, out, base, ret, hist>>

\* defer close(a.ready)
GoCloseReady ==
    /\ gpc = "closeReady"
    /\ readyClosed' = TRUE
    /\ gpc' = "closeExited"
    /\ UNCHANGED <<in, closer, owner, err, ready, reuse, exited, cur, size, buffers,
                   b, berr, cop, cpc, arg, out, base, ret, hist>>

\* Mutant of GoCloseExited: the goroutine ends without closing a.exited.
GoCloseExited_silent ==
    /\ gpc = "closeExited"
    /\ gpc' = "done"
    /\ hist' = [hist EXCEPT !.tasks = @ - 1]
    /\ UNCHANGED <<in, closer, owner, err, ready, readyClosed, reuse, exited, cur, size,
                   buffers, b, berr, cop, cpc, arg, out, base, ret>>

\* defer close(a.exited), the last thing the goroutine does
GoCloseExited ==
    /\ gpc = "closeExited"
    /\ exited' = TRUE
    /\ gpc' = "done"
    /\ hist' = [hist EXCEPT !.tasks = @ - 1]
    /\ UNCHANGED <<in, closer, owner, err, ready, readyClosed, reuse, cur, size, buffers,
                   b, berr, cop, cpc, arg, out, base, ret>>

Go == GoTake \/ GoRead \/ GoPublish \/ GoExit \/ GoCloseReady \/ GoCloseExited

\* ---- the sink of WriteTo ----
\* Outcomes of w.Write(p): everything accepted, or a failure together with
\* the count accepted before it.
SinkWrite(p) ==
    {[n |-> Len(p), err |-> ErrNil]}
    \cup {[n |-> m, err |-> ErrSink] : m \in 0..Len(p)}

\* ---- the consumer ----
\* A call is made in a Begin step, which fixes its arguments; its code runs
\* in the steps that follow, up to the step in which it returns.
Return(op, n, e) ==
    /\ ret' = [op |-> op, n |-> n, err |-> e, was |-> arg.was]
    /\ cop' = "none"
    /\ cpc' = "idle"
    /\ arg' = NoArg

\* Mutant of fillReturn: the drained buffer is dropped, not sent.
fillReturn_hold(ru, c) == ru

\* reuse after fill has dealt with the drained current buffer c:
\* if a.cur != nil { a.reuse <- a.cur }
fillReturn(ru, c) == IF c # NoBuf THEN Append(ru, c) ELSE ru

\* The error fill latches when the ready channel is closed and empty.
fillErr(e) == IF e = ErrNil THEN ErrClosed ELSE e

\* Mutant of readLatch: the buffer's error is returned but not latched.
readLatch_drop(e) == ErrNil

\* What Read latches when the current buffer is drained with error e:
\* a.err = a.cur.err
readLatch(e) == e

\* reader.Read after fill, c being the current buffer: copy, advance, and
\* at the end of the buffer latch and return its error.
ReadCopy(c, n) ==
    LET p == copy(n, buffer(c))
        c2 == inc(c, Len(p))
    IN /\ cur' = c2
       /\ out' = out \o p
       /\ IF isEmpty(c2)
          THEN /\ err' = readLatch(c2.err)
               /\ Return("Read", Len(p), c2.err)
               /\ hist' = [hist EXCEPT !.latched = IF c2.err # ErrNil THEN c2.err ELSE @]
          ELSE /\ err' = err
               /\ Return("Read", Len(p), ErrNil)
               /\ hist' = hist

\* The consumer calls Read(p) with len(p) = n.
ReadBegin(n) ==
    /\ cop = "none"
    /\ cop' = "Read"
    /\ cpc' = "entry"
    /\ arg' = [NoArg EXCEPT !.n = n]
    /\ ret' = NoRet
    /\ UNCHANGED <<in, closer, owner, err, ready, readyClosed, reuse, exited, cur, size,
                   buffers, gpc, b, berr, out, base, hist>>

\* reader.Read up to the receive in fill: a latched error is returned at
\* once; a current buffer with unread bytes is served; a drained one goes
\* back to reuse.
ReadEntry ==
    /\ cop = "Read"
    /\ cpc = "entry"
    /\ IF err # ErrNil
       THEN /\ Return("Read", 0, err)
            /\ UNCHANGED <<err, reuse, cur, out, hist>>
       ELSE IF isEmpty(cur)
       THEN /\ cur # NoBuf => Len(reuse) < buffers
            /\ reuse' = fillReturn(reuse, cur)
            /\ cur' = NoBuf
            /\ cpc' = "recv"
            /\ UNCHANGED <<err, cop, arg, ret, out, hist>>
       ELSE /\ ReadCopy(cur, arg.n)
            /\ reuse' = reuse
    /\ UNCHANGED <<in, closer, owner, ready, readyClosed, exited, size, buffers,
                   gpc, b, berr, base>>

\* reader.Read from b, ok := <-a.ready in fill.
ReadRecv ==
    /\ cop = "Read"
    /\ cpc = "recv"
    /\ ready # <<>> \/ readyClosed
    /\ IF ready # <<>>
       THEN /\ ready' = Tail(ready)
            /\ ReadCopy(Head(ready), arg.n)
       ELSE /\ err' = fillErr(err)
            /\ Return("Read", 0, err')
            /\ UNCHANGED <<ready, cur, out, hist>>
    /\ UNCHANGED <<in, closer, owner, readyClosed, reuse, exited, size, buffers,
                   gpc, b, berr, base>>

\* Mutant of writeToLatch: the buffer's terminal status is not latched.
writeToLatch_drop(e) == ErrNil

\* What WriteTo latches for a buffer's terminal status: a.err = a.cur.err
writeToLatch(e) == e

\* Mutant of writeToErr: every terminal status is treated as success.
writeToErr_nil(e) == ErrNil

\* What WriteTo returns for a buffer's terminal status.
writeToErr(e) == IF e = EOF THEN ErrNil ELSE e

\* reader.WriteTo after fill, c being the current buffer and n the count so
\* far: write the unread bytes, advance by what the sink accepted, return on
\* a sink error or on the buffer's terminal status, and otherwise go round
\* the loop into fill, where the drained buffer goes back to reuse.
WriteChunk(c, n) ==
    \E w \in SinkWrite(buffer(c)) :
        LET c2 == inc(c, w.n)
            n2 == n + w.n
        IN /\ out' = out \o SubSeq(buffer(c), 1, w.n)
           /\ IF w.err # ErrNil
              THEN /\ Return("WriteTo", n2, w.err)
                   /\ cur' = c2
                   /\ UNCHANGED <<err, reuse, hist>>
              ELSE IF c2.err # ErrNil
              THEN /\ err' = writeToLatch(c2.err)
                   /\ Return("WriteTo", n2, writeToErr(c2.err))
                   /\ cur' = c2
                   /\ reuse' = reuse
                   /\ hist' = [hist EXCEPT !.drained = @ \/ ret'.err = ErrNil]
              ELSE /\ isEmpty(c2)
                   /\ Len(reuse) < buffers
                   /\ reuse' = fillReturn(reuse, c2)
                   /\ cur' = NoBuf
                   /\ cpc' = "recv"
                   /\ arg' = [arg EXCEPT !.n = n2]
                   /\ UNCHANGED <<err, cop, ret, hist>>

\* The consumer calls WriteTo(w).
WriteToBegin ==
    /\ cop = "none"
    /\ cop' = "WriteTo"
    /\ cpc' = "entry"
    /\ arg' = [NoArg EXCEPT !.from = Len(out), !.was = err]
    /\ ret' = NoRet
    /\ UNCHANGED <<in, closer, owner, err, ready, readyClosed, reuse, exited, cur, size,
                   buffers, gpc, b, berr, out, base, hist>>

\* reader.WriteTo up to the first receive in fill.
WriteToEntry ==
    /\ cop = "WriteTo"
    /\ cpc = "entry"
    /\ IF err # ErrNil
       THEN /\ Return("WriteTo", 0, err)
            /\ UNCHANGED <<err, reuse, cur, out, hist>>
       ELSE IF isEmpty(cur)
       THEN /\ cur # NoBuf => Len(reuse) < buffers
            /\ reuse' = fillReturn(reuse, cur)
            /\ cur' = NoBuf
            /\ cpc' = "recv"
            /\ UNCHANGED <<err, cop, arg, ret, out, hist>>
       ELSE WriteChunk(cur, 0)
    /\ UNCHANGED <<in, closer, owner, ready, readyClosed, exited, size, buffers,
                   gpc, b, berr, base>>

\* reader.WriteTo from b, ok := <-a.ready in fill.
WriteToRecv ==
    /\ cop = "WriteTo"
    /\ cpc = "recv"
    /\ ready # <<>> \/ readyClosed
    /\ IF ready # <<>>
       THEN /\ ready' = Tail(ready)
            /\ WriteChunk(Head(ready), arg.n)
       ELSE /\ err' = fillErr(err)
            /\ Return("WriteTo", arg.n, err')
            /\ UNCHANGED <<ready, reuse, cur, out, hist>>
    /\ UNCHANGED <<in, closer, owner, readyClosed, exited, size, buffers,
                   gpc, b, berr, base>>

\* The consumer calls Close(); it stands at the select on a.exited and a.exit.
CloseBegin ==
    /\ cop = "none"
    /\ cop' = "Close"
    /\ cpc' = "sel"
    /\ arg' = [NoArg EXCEPT !.first = ~hist.closed]
    /\ ret' = NoRet
    /\ hist' = [hist EXCEPT !.latched = ErrNil, !.drained = FALSE]
    /\ UNCHANGED <<in, closer, owner, err, ready, readyClosed, reuse, exited, cur, size,
                   buffers, gpc, b, berr, out, base>>

\* Mutant of Stopped: Close and Seek do not wait for a.exited.
Stopped_unsynced == cpc \in {"sel", "wait"}

\* Mutant of Stopped: having sent the stop signal, the caller does not wait
\* for a.exited.
Stopped_signalled == cpc = "wait" \/ (cpc = "sel" /\ exited)

\* Close and Seek get past the stop handshake once a.exited is closed:
\* case <-a.exited, or <-a.exited after the send on a.exit.
Stopped == cpc \in {"sel", "wait"} /\ exited

\* Whether this Close releases the upstream resource: a.closer != nil.
closeReleases(c) == c

\* Mutant of closerAfter: the closer is kept after the release.
closerAfter_kept(c) == c

\* a.closer after the release: a.closer = nil.
closerAfter(c) == FALSE

\* return c.Close()
closeReturn(e) == e

\* What Close leaves in a.err, given whether it held a closer.
closeErr(c, e) == IF c THEN e ELSE ErrClosed

\* reader.Close after the goroutine has exited.
CloseFinish ==
    /\ cop = "Close"
    /\ Stopped
    /\ IF closeReleases(closer)
       THEN /\ closer' = closerAfter(closer)
            /\ \E e \in {ErrNil, ErrCloser} :
                  /\ Return("Close", 0, closeReturn(e))
                  /\ hist' = [hist EXCEPT !.closerCalls = Min(@ + 1, 2),
                                          !.closerRet = e,
                                          !.closed = TRUE,
                                          !.afterClose = TRUE]
       ELSE /\ closer' = closer
            /\ Return("Close", 0, ErrNil)
            /\ hist' = [hist EXCEPT !.closed = TRUE, !.afterClose = TRUE]
    /\ err' = closeErr(closer, err)
    /\ UNCHANGED <<in, owner, ready, readyClosed, reuse, exited, cur, size, buffers,
                   gpc, b, berr, out, base>>

\* The offsets passed to Seek: backwards, none, forwards, and beyond the
\* end of the data (which the upstream Seek refuses).
SeekOffsets == {-1, 0, 1, DataLen + 1}

\* The position a Seek(offset, whence) asks for, the consumer being at lpos.
Target(lpos, offset, whence) ==
    IF whence = SeekStart THEN offset
    ELSE IF whence = SeekCurrent THEN lpos + offset
    ELSE DataLen + offset

\* The consumer calls Seek(offset, whence) from a position within the data,
\* asking for a position within the data or passing an offset the upstream
\* Seek refuses; it stands at the select on a.exited and a.exit.
SeekBegin(offset, whence) ==
    /\ cop = "none"
    /\ base + Len(out) \in 0..DataLen
    /\ offset <= DataLen => Target(base + Len(out), offset, whence) \in 0..DataLen
    /\ cop' = "Seek"
    /\ cpc' = "sel"
    /\ arg' = [NoArg EXCEPT !.offset = offset, !.whence = whence, !.was = err,
                            !.want = Target(base + Len(out), offset, whence)]
    /\ ret' = NoRet
    /\ hist' = [hist EXCEPT !.latched = ErrNil,
                            !.drained = FALSE,
                            !.afterClose = FALSE,
                            !.seek = [state |-> "called", whence |-> whence]]
    /\ UNCHANGED <<in, closer, owner, err, ready, readyClosed, reuse, exited, cur, size,
                   buffers, gpc, b, berr, out, base>>

\* reader.fill as Seek calls it, the goroutine having exited (ready is
\* closed and nothing else touches the channels): st holds a.cur, a.ready,
\* a.reuse and a.err, and ferr is what fill returns.
fill(st) ==
    IF isEmpty(st.cur)
    THEN LET ru == fillReturn(st.reuse, st.cur) IN
         IF st.ready # <<>>
         THEN [st EXCEPT !.cur = Head(st.ready), !.ready = Tail(st.ready),
                         !.reuse = ru, !.ferr = ErrNil]
         ELSE [st EXCEPT !.cur = NoBuf, !.reuse = ru,
                         !.err = fillErr(st.err), !.ferr = fillErr(st.err)]
    ELSE [st EXCEPT !.ferr = ErrNil]

\* seekable.Seek, the body of the loop: after fill, if it succeeded and
\* left a current buffer, its unread bytes are taken off the offset and the
\* buffer is marked consumed.
seekBody(st) ==
    LET f == fill(st) IN
    IF f.ferr = ErrNil /\ f.cur # NoBuf
    THEN [f EXCEPT !.offset = @ - Len(buffer(f.cur)),
                   !.cur.offset = Len(f.cur.buf)]
    ELSE f

\* seekable.Seek, the loop for a.cur != nil { ... }.  (The state after the
\* body is drawn from a singleton so that it is evaluated once.)
RECURSIVE seekLoop(_)
seekLoop(st) ==
    IF st.cur = NoBuf
    THEN st
    ELSE CHOOSE res \in {seekLoop(nxt) : nxt \in {seekBody(st)}} : TRUE

\* Mutant of seekAccounts: the buffered bytes are taken off for every whence.
seekAccounts_any(whence) == TRUE

\* Whether Seek accounts for the buffered bytes: whence == io.SeekCurrent.
seekAccounts(whence) == whence = SeekCurrent

\* Mutant of seekCloser: Seek drops the closer.
seekCloser_drop(c) == FALSE

\* a.closer after Seek: neither Seek nor init assigns it.
seekCloser(c) == c

\* Mutant of initErr: init leaves a.err alone.
initErr_keep(e) == e

\* reader.init: a.err = nil
initErr(e) == ErrNil

\* seekable.Seek after the goroutine has exited: the accounting loop, the
\* upstream Seek and, if it succeeds, reader.init.
SeekFinish ==
    /\ cop = "Seek"
    /\ Stopped
    /\ LET st0 == [cur |-> cur, ready |-> ready, reuse |-> reuse, err |-> err,
                   offset |-> arg.offset, ferr |-> ErrNil]
           st == IF seekAccounts(arg.whence) THEN seekLoop(st0) ELSE st0
           r == SourceSeek(in.pos, st.offset, arg.whence)
       IN /\ in' = [in EXCEPT !.pos = r.pos]
          /\ Return("Seek", r.res, r.err)
          /\ IF r.err = ErrNil
             THEN /\ ready' = <<>>
                  /\ readyClosed' = FALSE
                  /\ reuse' = newPool(buffers, size)
                  /\ exited' = FALSE
                  /\ cur' = NoBuf
                  /\ err' = initErr(st.err)
                  /\ gpc' = "select"
                  /\ b' = NoBuf
                  /\ berr' = ErrNil
                  /\ out' = <<>>
                  /\ base' = r.res
                  /\ hist' = [hist EXCEPT !.seek.state = "ok", !.term = ErrNil,
                                           !.tasks = Min(@ + 1, 2)]
             ELSE /\ ready' = st.ready
                  /\ reuse' = st.reuse
                  /\ cur' = st.cur
                  /\ err' = st.err
                  /\ hist' = [hist EXCEPT !.seek.state = "failed"]
                  /\ UNCHANGED <<readyClosed, exited, gpc, b, berr, out, base>>
    /\ closer' = seekCloser(closer)
    /\ UNCHANGED <<owner, size, buffers>>

Consumer ==
    \/ \E n \in 1..MaxReadLen : ReadBegin(n)
    \/ ReadEntry
    \/ ReadRecv
    \/ WriteToBegin
    \/ WriteToEntry
    \/ WriteToRecv
    \/ CloseBegin
    \/ CloseFinish
    \/ \E offset \in SeekOffsets, whence \in {SeekStart, SeekCurrent, SeekEnd} :
          SeekBegin(offset, whence)
    \/ SeekFinish

Next == Go \/ Consumer

Spec == Init /\ [][Next]_vars

\* The goroutine runs whenever it can (every pull returns, the scheduler
\* is fair), and a Close that can proceed does.
FairSpec == Spec /\ WF_vars(Go) /\ WF_vars(CloseFinish)

\* The goroutine runs whenever it can, and a Seek that can proceed does
\* (the upstream Seek returns).
SeekSpec == Spec /\ WF_vars(Go) /\ WF_vars(SeekFinish)

\* A consumer that is inside Read or WriteTo runs on: neither the scheduler
\* nor the sink stops it.
Drain == ReadEntry \/ ReadRecv \/ WriteToEntry \/ WriteToRecv

\* The goroutine and a draining consumer both run whenever they can.
DrainSpec == Spec /\ WF_vars(Go) /\ WF_vars(Drain)

\* ---- construction (NewReaderSize, NewReadCloserSize) ----
ErrSize == "buffer size too small"
ErrBuffers == "number of buffers too small"
ErrInput == "nil input reader supplied"

\* The arguments tried: non-positive and positive counts and sizes.
NewBuffers == {-1, 0, 1, MaxBuffers}
NewSizes == {-1, 0, 1, MaxSize}

\* Mutant of newErr: the number of buffers is not checked.
newErr_anyBuffers(present, nb, sz) ==
    IF sz <= 0 THEN ErrSize
    ELSE IF ~present THEN ErrInput
    ELSE ErrNil

\* The checks of NewReaderSize and NewReadCloserSize, in the code's order;
\* present: the source is not nil.
newErr(present, nb, sz) ==
    IF sz <= 0 THEN ErrSize
    ELSE IF nb <= 0 THEN ErrBuffers
    ELSE IF ~present THEN ErrInput
    ELSE ErrNil

\* Before construction: no stream, no goroutine, the source untouched.
\* The constructor's arguments are in buffers, size, closer (the closing
\* variant is called) and arg.first (the source is present).
InitNew ==
    /\ buffers \in NewBuffers
    /\ size \in NewSizes
    /\ closer \in BOOLEAN
    /\ arg \in {[NoArg EXCEPT !.first = p] : p \in BOOLEAN}
    /\ owner = FALSE
    /\ in = [pos |-> 0]
    /\ err = ErrNil
    /\ ready = <<>>
    /\ readyClosed = FALSE
    /\ reuse = <<>>
    /\ exited = FALSE
    /\ cur = NoBuf
    /\ gpc = "none"
    /\ b = NoBuf
    /\ berr = ErrNil
    /\ cop = "New"
    /\ cpc = "idle"
    /\ out = <<>>
    /\ base = 0
    /\ ret = NoRet
    /\ hist = [InitHist EXCEPT !.tasks = 0]

\* NewReaderSize / NewReadCloserSize: on a failed check an error and no
\* stream (no call can follow); otherwise reader.init.
New ==
    /\ cop = "New"
    /\ LET e == newErr(arg.first, buffers, size) IN
         /\ ret' = [NoRet EXCEPT !.op = "New", !.err = e]
         /\ arg' = NoArg
         /\ IF e # ErrNil
            THEN /\ cop' = "nostream"
                 /\ closer' = FALSE
                 /\ UNCHANGED <<owner, reuse, gpc, hist>>
            ELSE /\ cop' = "none"
                 /\ owner' = closer
                 /\ reuse' = newPool(buffers, size)
                 /\ gpc' = "select"
                 /\ hist' = [hist EXCEPT !.tasks = 1]
                 /\ UNCHANGED closer
    /\ UNCHANGED <<in, err, ready, readyClosed, exited, cur, size, buffers, b, berr,
                   cpc, out, base>>

NewSpec == InitNew /\ [][New \/ Next]_vars

\* ---- properties ----

\* The buffers of the pipeline, wherever they are.
Pool == {reuse[i] : i \in 1..Len(reuse)} \cup {ready[i] : i \in 1..Len(ready)} \cup {b, cur}

\* No pull of the running pipeline was aborted by a panic.
NoPanic == \A c \in Pool : c.err # ErrPanic

\* A consumer call returns in this step.
Returns(op) == cop = op /\ cop' = "none"

\* The consumer's logical position.
lpos == base + Len(out)

\* The bytes delivered since the last reposition are the source's bytes
\* from that position on, in order.
Faithful ==
    /\ base >= 0
    /\ lpos <= DataLen
    /\ \A i \in 1..Len(out) : out[i] = Data[base + i]

\* C1: byte-order fidelity of Read.  On a stream drained from its
\* construction (no Seek) whose source ends in end-of-data (no pull panics),
\* whatever the pool depth, the buffer size, the source's chunking, the read
\* sizes and the interleaving, the bytes the consumer has been handed are a
\* prefix of the source's bytes, and when a Read returns end-of-data they
\* are all of them: nothing lost, duplicated or reordered.
C1_ReadFidelity ==
    (NoPanic /\ hist.seek.state = "none") =>
        /\ Faithful
        /\ (ret.op = "Read" /\ ret.err = EOF) => out = Data

\* C1 witness: on a stream never closed or repositioned, with the deepest
\* pool, a Read has returned end-of-data after all bytes were delivered.
C1_Witness ==
    /\ hist.seek.state = "none"
    /\ ~hist.closed
    /\ buffers = MaxBuffers
    /\ ret.op = "Read"
    /\ ret.err = EOF
    /\ out = Data

\* C3: terminal latch.  Once a Read has returned end-of-data or a source
\* failure, and no Close or Seek was called since, every Read that returns
\* returns 0 bytes and that same condition.
C3_TerminalLatch ==
    [][(hist.latched # ErrNil /\ Returns("Read"))
            => (ret'.n = 0 /\ ret'.err = hist.latched)]_vars

\* C3 witness: a Read has returned 0 bytes and the source's failure after an
\* earlier Read had returned that failure.
C3_Witness ==
    /\ hist.latched = ErrSource
    /\ ret.op = "Read"
    /\ ret.n = 0
    /\ ret.err = ErrSource

\* C6: Close always completes and leaves no background task.  A Close()
\* called in any state returns, and from its return until the next Seek the
\* goroutine has terminated (so it pulls nothing more from the source).
C6_CloseCompletes ==
    /\ (cop = "Close") ~> (cop = "none" /\ ret.op = "Close" /\ gpc = "done")
    /\ [](hist.afterClose => gpc = "done")

\* C2 (as claimed): a WriteTo called with no latched error whose sink
\* accepts every write in full writes the source's remaining bytes in order
\* up to the source's terminal status, returns the number of bytes the sink
\* accepted, and returns nil when that status is end-of-data.
C2_WriteToFidelity ==
    [][(Returns("WriteTo") /\ arg.was = ErrNil /\ ret'.err # ErrSink) =>
            /\ ret'.n = Len(out') - arg.from
            /\ Faithful'
            /\ lpos' = in'.pos
            /\ err' \in {EOF, ErrSource, ErrPanic}
            /\ ret'.err = (IF err' = EOF THEN ErrNil ELSE err')]_vars

\* C4 (as claimed): after a Close() has returned, and until a Seek is
\* called, the latched error is set and every Read or WriteTo returns 0
\* bytes and the used-after-close failure, with or without a closer.
C4_ReadAfterCloseFails ==
    hist.afterClose =>
        /\ err # ErrNil
        /\ ret.op \in {"Read", "WriteTo"} => (ret.n = 0 /\ ret.err = ErrClosed)

\* C5: Close is idempotent and releases at most once.  The upstream Close
\* is never invoked twice; the first Close() of a stream that owns a closer
\* invokes it and returns its outcome; every later Close() returns nil and
\* does not invoke it.
C5_CloseOnce ==
    /\ [](hist.closerCalls <= 1)
    /\ [][Returns("Close") =>
            IF arg.first
            THEN /\ hist'.closerCalls = (IF owner THEN 1 ELSE 0)
                 /\ owner => ret'.err = hist'.closerRet
            ELSE /\ ret'.err = ErrNil
                 /\ hist'.closerCalls = hist.closerCalls]_vars

\* C5 witness: on a stream that owns a closer whose Close failed, a later
\* Close() has returned nil, the closer having been invoked once.
C5_Witness ==
    /\ owner
    /\ hist.closerRet = ErrCloser
    /\ hist.closerCalls = 1
    /\ ret.op = "Close"
    /\ ret.err = ErrNil

\* C6 witness: a Close() called before any byte was delivered has returned;
\* the goroutine was stopped by it (no buffer carries a terminal status)
\* with a buffer queued on ready and another still idle.
C6_Witness ==
    /\ ret.op = "Close"
    /\ cop = "none"
    /\ gpc = "done"
    /\ out = <<>>
    /\ hist.seek.state = "none"
    /\ ready # <<>>
    /\ reuse # <<>>
    /\ \A c \in Pool : c.err = ErrNil

\* C7: reposition from start.  A successful Seek(k, SeekStart), called in
\* whatever state, returns k with the source at k and nothing delivered
\* yet, and the bytes delivered after it are the source's bytes from offset
\* k on (the source not panicking), all of them once a Read returns
\* end-of-data.
C7_SeekStart ==
    /\ [][(Returns("Seek") /\ arg.whence = SeekStart /\ ret'.err = ErrNil) =>
              (ret'.n = arg.want /\ base' = arg.want /\ in'.pos = arg.want)]_vars
    /\ []((hist.seek.state = "ok" /\ hist.seek.whence = SeekStart /\ NoPanic) =>
              /\ Faithful
              /\ (ret.op = "Read" /\ ret.err = EOF) => lpos = DataLen)

\* C7 witness: after a successful Seek(1, SeekStart) the bytes from offset 1
\* to the end were delivered and a Read returned end-of-data.
C7_Witness ==
    /\ hist.seek.state = "ok"
    /\ hist.seek.whence = SeekStart
    /\ base = 1
    /\ out = SubSeq(Data, 2, DataLen)
    /\ ret.op = "Read"
    /\ ret.err = EOF

\* C8 (as claimed): a successful Seek(k, SeekCurrent) called at logical
\* position p returns p+k and leaves the source at p+k with nothing
\* delivered yet, also when no Read happened since construction or the
\* previous Seek.
C8_SeekCurrent ==
    [][(Returns("Seek") /\ arg.whence = SeekCurrent /\ ret'.err = ErrNil) =>
          (ret'.n = arg.want /\ base' = arg.want /\ in'.pos = arg.want)]_vars

\* C9 (as claimed): after a Seek whose upstream Seek failed, Seek has
\* returned that error, no goroutine runs, an error is latched, and every
\* Read or WriteTo returns 0 bytes and a failure.
C9_FailedSeekLatches ==
    hist.seek.state = "failed" =>
        /\ gpc = "done"
        /\ err # ErrNil
        /\ ret.op = "Seek" => ret.err = ErrSeek
        /\ ret.op \in {"Read", "WriteTo"} => (ret.n = 0 /\ ret.err # ErrNil)

\* The pool reader.init creates.
FreshPool == newPool(buffers, size)

\* C10: a successful reposition reinitializes.  When a Seek returns without
\* error, whatever was latched before, a.err is nil, cur is nil, reuse holds
\* exactly `buffers` fresh buffers, ready is empty and open, exited is open
\* and a new goroutine stands at its select.
C10_SeekReinitializes ==
    [][(Returns("Seek") /\ ret'.err = ErrNil) =>
            /\ err' = ErrNil
            /\ cur' = NoBuf
            /\ reuse' = FreshPool
            /\ ready' = <<>>
            /\ ~readyClosed'
            /\ ~exited'
            /\ gpc' = "select"
            /\ b' = NoBuf]_vars

\* C10 witness: a Seek called with end-of-data latched has returned without
\* error, leaving no latched error and a new goroutine at its select.
C10_Witness ==
    /\ hist.seek.state = "ok"
    /\ ret.op = "Seek"
    /\ ret.err = ErrNil
    /\ ret.was = EOF
    /\ err = ErrNil
    /\ gpc = "select"
    /\ Len(reuse) = buffers

\* C11: abnormal-pull containment.  After a pull has panicked, on the first
\* pull or a later one, a buffer of the pool carries the converted failure;
\* the goroutine goes on to close ready and exited and ends; a Read or
\* WriteTo in progress returns; and a Read or WriteTo that returns with
\* nothing left to deliver (the failed buffer published, ready empty, the
\* current buffer drained) returns a non-nil failure.
C11_PanicContained ==
    /\ [](hist.term = ErrPanic => \E c \in Pool : c.err = ErrPanic)
    /\ (hist.term = ErrPanic) ~> (gpc = "done" /\ readyClosed /\ exited)
    /\ (hist.term = ErrPanic /\ cop \in {"Read", "WriteTo"}) ~> (cop = "none")
    /\ [][(hist.term = ErrPanic /\ (Returns("Read") \/ Returns("WriteTo"))
            /\ b' = NoBuf /\ ready' = <<>> /\ isEmpty(cur'))
              => ret'.err # ErrNil]_vars

\* C11 witness: the second pull of the stream panicked; the consumer was
\* handed the first pull's byte and then a Read returned the converted
\* failure, the goroutine having ended.
C11_Witness ==
    /\ hist.term = ErrPanic
    /\ hist.seek.state = "none"
    /\ in.pos > 0
    /\ out # <<>>
    /\ ret.op = "Read"
    /\ ret.err = ErrPanic
    /\ gpc = "done"

\* C12: a source failure is surfaced unchanged and after the data.  A Read
\* or WriteTo returns the source's failure E only when a pull yielded E and
\* every byte the source produced before it has been delivered, in order;
\* and the call in which the consumer takes the last byte of the buffer that
\* carries E returns exactly E and latches it (unless the sink failed).
C12_SourceFailureSurfaced ==
    [][(Returns("Read") \/ Returns("WriteTo")) =>
          /\ ret'.err = ErrSource =>
                (hist.term = ErrSource /\ Faithful' /\ lpos' = in'.pos)
          /\ (cur'.err = ErrSource /\ isEmpty(cur') /\ cur' # cur /\ ret'.err # ErrSink) =>
                (ret'.err = ErrSource /\ err' = ErrSource)]_vars

\* C12 witness: with the deepest pool, the source failed after having
\* produced two bytes and a WriteTo has written both and returned the
\* failure.
C12_Witness ==
    /\ buffers = MaxBuffers
    /\ hist.term = ErrSource
    /\ in.pos = 2
    /\ ret.op = "WriteTo"
    /\ ret.n = 2
    /\ ret.err = ErrSource
    /\ out = SubSeq(Data, 1, 2)

\* Buffers filled from the source and not yet given back to reuse by the
\* consumer: in the goroutine's hands after the pull, on ready, or current.
Fetched ==
    Len(ready) + (IF cur # NoBuf THEN 1 ELSE 0) + (IF gpc = "publish" THEN 1 ELSE 0)

\* C13: backpressure bound.  At most `buffers` buffers are fetched and not
\* yet given back; the goroutine enters a pull only by taking the head of
\* reuse, pulls only into that buffer, and with reuse empty it cannot take.
C13_Backpressure ==
    /\ [](Fetched <= buffers)
    /\ []((gpc = "select" /\ reuse = <<>>) => ~ENABLED GoTake)
    /\ [](gpc = "read" => b # NoBuf)
    /\ [][(gpc # "read" /\ gpc' = "read") =>
            (reuse # <<>> /\ b' = Head(reuse) /\ reuse' = Tail(reuse))]_vars

\* C13 witness: with the deepest pool every buffer is fetched ahead (one
\* current, the others on ready) and the goroutine stands at its select
\* with reuse empty.
C13_Witness ==
    /\ buffers = MaxBuffers
    /\ Fetched = buffers
    /\ cur # NoBuf
    /\ reuse = <<>>
    /\ gpc = "select"
    /\ hist.term = ErrNil

\* C14 (as claimed): cancellation latency.  While Close or Seek stands at
\* its select offering the stop signal on a.exit, the goroutine takes no
\* buffer from reuse, so it starts no new pull: only a pull already in
\* flight completes before it exits.
C14_NoPullAfterStop ==
    [][(cop \in {"Close", "Seek"} /\ cpc = "sel") => ~(gpc = "select" /\ gpc' = "read")]_vars

\* C15: latched end-of-data is returned by later drains.  After a WriteTo
\* has reached end-of-data and returned nil, and until Close or Seek is
\* called, every WriteTo that returns returns 0 bytes and end-of-data,
\* having written nothing, and nothing is pulled from the source.
C15_DrainedLatch ==
    /\ [][(hist.drained /\ Returns("WriteTo")) =>
            (ret'.n = 0 /\ ret'.err = EOF /\ out' = out)]_vars
    /\ [][hist.drained => in' = in]_vars
    /\ [](hist.drained => gpc \notin {"select", "read", "publish"})

\* C15 witness: after a WriteTo that wrote all the source's bytes and
\* returned nil, a later WriteTo has returned 0 bytes and end-of-data.
C15_Witness ==
    /\ hist.drained
    /\ out = Data
    /\ ret.op = "WriteTo"
    /\ ret.n = 0
    /\ ret.err = EOF

\* C16: construction validation.  A constructor called with a non-positive
\* size, a non-positive number of buffers or a nil source returns an error
\* and no stream, starts no goroutine and leaves the source untouched, then
\* and ever after; called with a present source and positive values it
\* returns no error and leaves a pool of `buffers` fresh buffers and one
\* goroutine at its select.
C16_ConstructionValidated ==
    /\ [][(cop = "New" /\ cop' # "New") =>
            IF size <= 0 \/ buffers <= 0 \/ ~arg.first
            THEN /\ ret'.err # ErrNil
                 /\ cop' = "nostream"
                 /\ gpc' = "none"
                 /\ reuse' = <<>>
                 /\ in' = in
            ELSE /\ ret'.err = ErrNil
                 /\ cop' = "none"
                 /\ gpc' = "select"
                 /\ reuse' = FreshPool
                 /\ in' = in]_vars
    /\ [](cop = "nostream" => (gpc = "none" /\ in.pos = 0 /\ reuse = <<>> /\ ready = <<>>))

\* C16 witness: a constructor called with zero buffers, a positive size and
\* a present source has returned the error for the number of buffers.
C16_Witness ==
    /\ cop = "nostream"
    /\ buffers = 0
    /\ size = MaxSize
    /\ ret.op = "New"
    /\ ret.err = ErrBuffers
    /\ gpc = "none"

\* The buffers held in a sequence / by a holder of one buffer.
Ids(q) == {q[i].id : i \in 1..Len(q)}
Held(c) == IF c = NoBuf THEN {} ELSE {c.id}

\* C17: chunk conservation and exclusive ownership.  In every state of a
\* pipeline, also after Close and after the goroutine has exited, the
\* places reuse, the goroutine's hands, ready and cur hold `buffers` buffers
\* in all, and these are the pool's buffers 1..buffers, so each is in
\* exactly one place; and the buffer the goroutine pulls into is neither the
\* consumer's current one nor on ready.
C17_ChunkConservation ==
    /\ Len(reuse) + Len(ready) + Cardinality(Held(b)) + Cardinality(Held(cur)) = buffers
    /\ Ids(reuse) \cup Ids(ready) \cup Held(b) \cup Held(cur) = 1..buffers
    /\ gpc = "read" => (b # NoBuf /\ b.id \notin (Ids(ready) \cup Held(cur)))

\* C17 witness: with the deepest pool, after a Close has returned and the
\* goroutine has exited, one buffer is current, partly read, and another
\* sits on ready.
C17_Witness ==
    /\ buffers = MaxBuffers
    /\ hist.afterClose
    /\ gpc = "done"
    /\ cur # NoBuf
    /\ ~isEmpty(cur)
    /\ cur.offset > 0
    /\ ready # <<>>

\* C18: exclusive access to the upstream source.  a.exited is closed only
\* when the goroutine has ended, and the step in which Seek calls the
\* upstream Seek, or Close the upstream Close, is taken with a.exited closed
\* and the goroutine ended: never while a pull is in flight.
C18_ExclusiveSource ==
    /\ [](exited => gpc = "done")
    /\ [][(Returns("Seek") \/ (Returns("Close") /\ closer)) =>
            (exited /\ gpc = "done")]_vars

\* C18 witness: on a stream that owns a closer, a Close called while the
\* source had produced bytes and no terminal status has invoked the
\* upstream Close, the goroutine having been stopped by it.
C18_Witness ==
    /\ owner
    /\ hist.closerCalls = 1
    /\ hist.seek.state = "none"
    /\ ret.op = "Close"
    /\ in.pos > 0
    /\ hist.term = ErrNil
    /\ gpc = "done"

\* C19: the goroutine's exit protocol.  Whichever way it leaves its loop
\* (terminal status, converted panic, stop signal), the goroutine closes
\* a.ready once, while it is open, and then a.exited once, while it is open;
\* a.exited is never closed with a.ready open; a.ready is never closed while
\* the goroutine is in its loop; and a goroutine that has ended has closed
\* both.
C19_ExitProtocol ==
    /\ [](exited => readyClosed)
    /\ [](readyClosed => gpc \in {"closeExited", "done"})
    /\ [](gpc = "done" => (readyClosed /\ exited))
    /\ [][(gpc \in {"select", "publish"} /\ gpc' \notin {"select", "read", "publish"}) =>
            (gpc' = "closeReady" /\ ~readyClosed' /\ ~exited')]_vars
    /\ [][(gpc = "closeReady" /\ gpc' # "closeReady") =>
            (~readyClosed /\ readyClosed' /\ ~exited' /\ gpc' = "closeExited")]_vars
    /\ [][(gpc = "closeExited" /\ gpc' # "closeExited") =>
            (~exited /\ exited' /\ readyClosed' /\ gpc' = "done")]_vars
    /\ [][(readyClosed' # readyClosed \/ exited' # exited) =>
            (gpc \in {"closeReady", "closeExited"} \/ Returns("Seek"))]_vars

\* C19 witness: the goroutine has left its loop on end-of-data alone (no
\* Close, no Seek) and has closed a.ready and a.exited.
C19_Witness ==
    /\ hist.term = EOF
    /\ ~hist.closed
    /\ hist.seek.state = "none"
    /\ cop = "none"
    /\ gpc = "done"
    /\ readyClosed
    /\ exited

\* C20: stop on the first terminal status.  After a pull of this pipeline
\* has yielded a terminal status the goroutine makes no pull and the source
\* does not move until a Seek returns; the buffer of that pull is sent on
\* a.ready while it is open, is the last one sent, and the goroutine then
\* leaves its loop.
C20_StopOnTerminal ==
    /\ [](hist.term # ErrNil => gpc \in {"publish", "closeReady", "closeExited", "done"})
    /\ [][hist.term # ErrNil => (in' = in \/ Returns("Seek"))]_vars
    /\ []((hist.term # ErrNil /\ gpc = "publish") => (b.err = hist.term /\ ~readyClosed))
    /\ []((hist.term # ErrNil /\ gpc # "publish" /\ ready # <<>>) =>
            ready[Len(ready)].err = hist.term)
    /\ [][(hist.term # ErrNil /\ gpc = "publish" /\ gpc' # "publish") =>
            (ready' = Append(ready, b) /\ gpc' = "closeReady")]_vars
    /\ [][(hist.term # ErrNil /\ gpc # "publish") =>
            (Len(ready') <= Len(ready) \/ Returns("Seek"))]_vars

\* C20 witness: the source failed on its second pull; the failed buffer is
\* the last of two on the closed ready channel and the goroutine has ended.
C20_Witness ==
    /\ hist.term = ErrSource
    /\ Len(ready) = 2
    /\ ready[1].err = ErrNil
    /\ ready[2].err = ErrSource
    /\ readyClosed
    /\ gpc = "done"

\* C21 (as claimed): fetch postcondition.  After every pull, whatever its
\* outcome (bytes, bytes with a terminal status, no bytes, a converted
\* panic), the buffer's offset is 0 and its valid bytes are exactly the
\* bytes the source produced in that pull.
C21_FetchPostcondition ==
    [][(gpc = "read" /\ gpc' = "publish") =>
          /\ b'.offset = 0
          /\ Len(b'.buf) = in'.pos - in.pos
          /\ b'.buf = SubSeq(Data, in.pos + 1, in'.pos)]_vars

\* The buffer a returning Read copies from: the current one if it has
\* unread bytes, otherwise the one it receives from ready.
Serving ==
    IF ~isEmpty(cur) THEN cur
    ELSE IF cpc = "recv" /\ ready # <<>> THEN Head(ready)
    ELSE NoBuf

\* The terminal statuses a buffer can carry.
Terminal == {EOF, ErrSource, ErrPanic}

\* C22: trailing status timing.  A Read that finds no latched error copies
\* min(len(p), unread bytes) bytes of one buffer; it returns that buffer's
\* terminal status exactly when the call drains it, and nil otherwise; a
\* terminal status is latched only with the current buffer drained and ready
\* empty; and with an error latched no byte is delivered until a Seek
\* returns.
C22_TrailingStatus ==
    /\ [][(Returns("Read") /\ err = ErrNil /\ Serving # NoBuf) =>
            /\ ret'.n = Min(arg.n, Len(buffer(Serving)))
            /\ out' = out \o SubSeq(buffer(Serving), 1, ret'.n)
            /\ cur' = inc(Serving, ret'.n)
            /\ ret'.err = (IF isEmpty(cur') THEN cur'.err ELSE ErrNil)
            /\ err' = ret'.err]_vars
    /\ [][(Returns("Read") /\ ret'.err \in Terminal) =>
            (isEmpty(cur') /\ ready' = <<>> /\ err' = ret'.err)]_vars
    /\ [](err \in Terminal => (isEmpty(cur) /\ ready = <<>>))
    /\ [][(err # ErrNil /\ ~Returns("Seek")) => out' = out]_vars

\* C22 witness: a Read with len(p) = 1 has taken the last byte of a two-byte
\* buffer carrying end-of-data and returned 1 byte together with it.
C22_Witness ==
    /\ ret.op = "Read"
    /\ ret.n = 1
    /\ ret.err = EOF
    /\ err = EOF
    /\ Len(cur.buf) = 2
    /\ cur.offset = 2
    /\ out = Data

\* C23: reposition does not release the resource.  No step taken while a
\* Seek is in progress, whatever its origin and outcome, invokes the
\* upstream Close or changes whether the stream holds its closer; so the
\* first Close of a stream that owns a closer, before or after any Seek,
\* finds it and invokes it, once.
C23_SeekKeepsCloser ==
    /\ [][cop = "Seek" =>
            (closer' = closer /\ hist'.closerCalls = hist.closerCalls)]_vars
    /\ [](closer <=> (owner /\ hist.closerCalls = 0))
    /\ [][(Returns("Close") /\ arg.first /\ owner) =>
            (closer /\ hist'.closerCalls = 1)]_vars

\* C23 witness: on a stream that owns a closer, after a failed Seek, the
\* first Close has invoked the closer, once, and returned its error.
C23_Witness ==
    /\ owner
    /\ hist.seek.state = "failed"
    /\ hist.afterClose
    /\ hist.closerCalls = 1
    /\ ret.op = "Close"
    /\ ret.err = ErrCloser

\* The unread bytes of the buffers of a sequence.
RECURSIVE Unread(_)
Unread(q) == IF q = <<>> THEN 0 ELSE Len(buffer(Head(q))) + Unread(Tail(q))

\* Bytes pulled from the source and not delivered that lie in the current
\* buffer or on ready.
Buffered == Len(buffer(cur)) + Unread(ready)

\* C24: quiesce before accounting.  Seek does its accounting and the
\* upstream Seek in a step taken with a.exited closed; with a.exited closed
\* the goroutine has ended and holds no buffer, and (no pull having
\* panicked) every byte pulled and not delivered lies in the current buffer
\* or on ready: the source's position is the consumer's plus the buffered
\* bytes.
C24_QuiesceBeforeAccounting ==
    /\ [][Returns("Seek") => (exited /\ gpc = "done" /\ b = NoBuf)]_vars
    /\ [](exited => (gpc = "done" /\ b = NoBuf))
    /\ []((exited /\ NoPanic) => in.pos = lpos + Buffered)

\* C24 witness: a Seek relative to the current position stands at its
\* select with a.exited closed; the current buffer is partly read and a
\* buffer carrying end-of-data waits on ready.
C24_Witness ==
    /\ cop = "Seek"
    /\ cpc = "sel"
    /\ arg.whence = SeekCurrent
    /\ exited
    /\ cur # NoBuf
    /\ cur.offset > 0
    /\ ~isEmpty(cur)
    /\ ready # <<>>
    /\ ready[Len(ready)].err = EOF

\* C25: sink failure in WriteTo.  When the sink's write fails after accepting
\* m bytes of the current buffer, WriteTo returns in that step with the total
\* accepted since its call and the sink's error; the latched error is left
\* alone, nothing more is received from ready or sent to reuse, and the
\* current buffer is the one written with its cursor advanced by exactly m.
\* The bytes the sink took and the unread bytes of the current buffer then
\* continue the source's bytes without a gap or a repeat, so the next Read
\* is served the first byte the sink did not accept.
C25_SinkFailure ==
    /\ [][(Returns("WriteTo") /\ ret'.err = ErrSink) =>
            LET c == IF cpc = "recv" THEN Head(ready) ELSE cur
                m == Len(out') - Len(out)
            IN /\ m \in 0..(Len(c.buf) - c.offset)
               /\ out' = out \o SubSeq(c.buf, c.offset + 1, c.offset + m)
               /\ ret'.n = Len(out') - arg.from
               /\ err' = err
               /\ err' = ErrNil
               /\ cur' = [c EXCEPT !.offset = c.offset + m]
               /\ reuse' = reuse
               /\ ready' = (IF cpc = "recv" THEN Tail(ready) ELSE ready)]_vars
    /\ []((cop = "none" /\ ret.op = "WriteTo" /\ ret.err = ErrSink /\ NoPanic) =>
            /\ Faithful
            /\ \A i \in 1..(Len(cur.buf) - cur.offset) :
                    cur.buf[cur.offset + i] = Data[lpos + i])

\* C25 witness: a WriteTo has returned the sink's error after the sink took
\* a whole buffer and then part of the next; the current buffer keeps
\* unread bytes behind a cursor that moved.
C25_Witness ==
    /\ cop = "none"
    /\ ret.op = "WriteTo"
    /\ ret.err = ErrSink
    /\ cur # NoBuf
    /\ cur.offset > 0
    /\ ~isEmpty(cur)
    /\ ret.n > cur.offset
    /\ err = ErrNil

\* The cursor of buffer c lies within its valid bytes, and those within
\* the buffer size.
CursorOk(c) ==
    /\ 0 <= c.offset
    /\ c.offset <= Len(c.buf)
    /\ Len(c.buf) <= size

\* C26: buffer cursor invariant.  In every reachable state every buffer of
\* the pipeline, wherever it is (idle, being filled, ready or current),
\* has 0 <= offset <= len(buf) <= size, under any interleaving of pulls,
\* Read, WriteTo, Close and Seek; and the buffers that the loop of a Seek
\* relative to the current position has marked consumed satisfy it too,
\* before init replaces them.
C26_CursorInvariant ==
    /\ [](\A c \in Pool : CursorOk(c))
    /\ [][(Returns("Seek") /\ arg.whence = SeekCurrent) =>
            LET st == seekLoop([cur |-> cur, ready |-> ready, reuse |-> reuse,
                                err |-> err, offset |-> arg.offset, ferr |-> ErrNil])
            IN /\ CursorOk(st.cur)
               /\ \A i \in 1..Len(st.reuse) : CursorOk(st.reuse[i])
               /\ \A i \in 1..Len(st.ready) : CursorOk(st.ready[i])]_vars

\* C26 witness: a Seek relative to the current position is about to run its
\* loop over a current buffer that is partly read, while a buffer that was
\* filled short of its size and then drained lies on reuse.
C26_Witness ==
    /\ cop = "Seek"
    /\ Stopped
    /\ arg.whence = SeekCurrent
    /\ cur.offset > 0
    /\ ~isEmpty(cur)
    /\ \E i \in 1..Len(reuse) :
          /\ reuse[i].offset = Len(reuse[i].buf)
          /\ Len(reuse[i].buf) > 0
          /\ Len(reuse[i].buf) < size

\* C27: single fetch goroutine.  At most one goroutine started by init is
\* alive in any state, and it is the one the stream's channels belong to;
\* a goroutine is started only by a Seek whose upstream Seek succeeded, in
\* a step taken after the previous goroutine closed a.exited and ended; and
\* a Close, or a Seek whose upstream Seek failed, returns with no goroutine
\* alive and none is started until the next Seek.
C27_SingleFetchTask ==
    /\ [](hist.tasks <= 1)
    /\ [](hist.tasks = (IF gpc = "done" THEN 0 ELSE 1))
    /\ [][hist'.tasks > hist.tasks =>
            /\ Returns("Seek")
            /\ ret'.err = ErrNil
            /\ exited
            /\ gpc = "done"
            /\ hist.tasks = 0]_vars
    /\ [][(Returns("Close") \/ (Returns("Seek") /\ ret'.err # ErrNil)) =>
            hist'.tasks = 0]_vars
    /\ []((hist.afterClose \/ hist.seek.state = "failed") => hist.tasks = 0)

\* C27 witness: on a stream that was closed, a Seek has succeeded and the
\* one goroutine it started is pulling from the source.
C27_Witness ==
    /\ hist.closed
    /\ ret.op = "Seek"
    /\ ret.err = ErrNil
    /\ hist.tasks = 1
    /\ gpc = "read"

\* C28: hand-off sends never block.  Whenever the goroutine stands at its
\* send on a.ready, ready has room and the send can be taken; whenever the
\* consumer holds a current buffer or can receive one, reuse has room, so
\* the send of a drained buffer in fill completes at once, also after the
\* goroutine has exited; a Read or WriteTo at its entry can always take its
\* step; and the sends made by fill inside the loop of Seek never fill
\* reuse beyond its capacity.
C28_SendsNeverBlock ==
    /\ [](gpc = "publish" => (Len(ready) < buffers /\ ENABLED GoPublish))
    /\ []((cur # NoBuf \/ ready # <<>>) => Len(reuse) < buffers)
    /\ []((cop = "Read" /\ cpc = "entry") => ENABLED ReadEntry)
    /\ []((cop = "WriteTo" /\ cpc = "entry") => ENABLED WriteToEntry)
    /\ [][(Returns("Seek") /\ arg.whence = SeekCurrent) =>
            Len(seekLoop([cur |-> cur, ready |-> ready, reuse |-> reuse,
                          err |-> err, offset |-> arg.offset,
                          ferr |-> ErrNil]).reuse) <= buffers]_vars

\* C28 witness: with the deepest pool and the goroutine ended, a Read with
\* no latched error is about to send its drained current buffer to reuse,
\* which holds every other buffer.
C28_Witness ==
    /\ buffers = MaxBuffers
    /\ exited
    /\ cop = "Read"
    /\ cpc = "entry"
    /\ err = ErrNil
    /\ cur # NoBuf
    /\ isEmpty(cur)
    /\ Len(reuse) = buffers - 1

\* C29: Read and WriteTo make progress.  With the goroutine and the calling
\* consumer both running whenever they can (every pull and every sink write
\* returns), every Read and every WriteTo returns, for a pool of one buffer
\* as for a deeper one; and in no state does the consumer wait on an empty,
\* open a.ready while the goroutine waits on an empty a.reuse: while the
\* consumer has nothing to receive, the goroutine can take a step.
C29_ReadProgress ==
    /\ (cop \in {"Read", "WriteTo"}) ~> (cop = "none")
    /\ (cop \in {"Read", "WriteTo"} /\ buffers = 1 /\ err = ErrNil) ~>
            (cop = "none" /\ ret.op \in {"Read", "WriteTo"})
    /\ [](~(/\ cop \in {"Read", "WriteTo"}
            /\ cpc = "recv"
            /\ ready = <<>>
            /\ ~readyClosed
            /\ gpc = "select"
            /\ reuse = <<>>))
    /\ []((cop \in {"Read", "WriteTo"} /\ ~ENABLED Drain) => ENABLED Go)

\* C29 witness: with a pool of one buffer, a Read that found the only
\* buffer drained, gave it back and waited for the goroutine to refill it
\* has returned bytes of the second pull.
C29_Witness ==
    /\ buffers = 1
    /\ cop = "none"
    /\ ret.op = "Read"
    /\ ret.n > 0
    /\ ret.err = ErrNil
    /\ hist.seek.state = "none"
    /\ Len(out) > size
    /\ cur # NoBuf
    /\ cur.id = 1

\* The buffers the loop of Seek takes the unread bytes of, from state st on.
RECURSIVE seekLoopLen(_)
seekLoopLen(st) ==
    IF st.cur = NoBuf
    THEN 0
    ELSE CHOOSE k \in {(IF nxt.ferr = ErrNil /\ nxt.cur # NoBuf THEN 1 ELSE 0)
                           + seekLoopLen(nxt) : nxt \in {seekBody(st)}} : TRUE

\* C30: Seek terminates.  With the goroutine running whenever it can and
\* the upstream Seek returning, every Seek returns.  Its stop handshake
\* completes whether the goroutine is pulling, waiting at its select or
\* already ended: while Seek cannot go on, the goroutine can step, and once
\* the signal is taken the goroutine is on its way out.  When Seek observes
\* a.exited closed, a.ready is closed too, so the receives of its loop
\* return at once; the loop takes the unread bytes of at most `buffers`
\* buffers and leaves no current buffer and nothing on ready.
C30_SeekTerminates ==
    /\ (cop = "Seek") ~> (cop = "none" /\ ret.op = "Seek")
    /\ []((cop = "Seek" /\ ~ENABLED SeekFinish) => ENABLED Go)
    /\ []((cop = "Seek" /\ cpc = "wait") => gpc \in {"closeReady", "closeExited", "done"})
    /\ []((cop = "Seek" /\ Stopped) => (readyClosed /\ ENABLED SeekFinish))
    /\ [][(Returns("Seek") /\ arg.whence = SeekCurrent /\ cur # NoBuf) =>
            LET st0 == [cur |-> cur, ready |-> ready, reuse |-> reuse, err |-> err,
                        offset |-> arg.offset, ferr |-> ErrNil]
            IN /\ seekLoopLen(st0) <= buffers
               /\ seekLoop(st0).cur = NoBuf
               /\ seekLoop(st0).ready = <<>>]_vars

\* C30 witness: with the deepest pool, a Seek relative to the current
\* position has sent the stop signal and the goroutine has taken it and
\* ended; Seek is about to run its loop over a current buffer with unread
\* bytes and every other buffer on ready.
C30_Witness ==
    /\ buffers = MaxBuffers
    /\ cop = "Seek"
    /\ cpc = "wait"
    /\ exited
    /\ arg.whence = SeekCurrent
    /\ cur # NoBuf
    /\ ~isEmpty(cur)
    /\ Len(ready) = buffers - 1

\* C31 (as claimed): used-after-close only after teardown.  As long as
\* neither Close nor Seek has been called, no Read or WriteTo returns the
\* error fill makes up for a closed ready channel: a failure a call returns
\* is the sink's or the terminal status a pull of the source yielded.
C31_ClosedOnlyAfterTeardown ==
    [][(~hist.closed /\ hist.seek.state = "none"
            /\ (Returns("Read") \/ Returns("WriteTo"))) =>
            /\ ret'.err # ErrClosed
            /\ ret'.err \in {ErrNil, ErrSink, hist.term}]_vars

\* C32: bounded work after a stop request.  From the call of Close or Seek
\* until the goroutine has exited, the consumer gives no buffer back (reuse
\* only shrinks and the current buffer stays where it is), so the pulls
\* completed since the call, the buffers still idle and a pull in flight
\* together never exceed `buffers`: the goroutine completes at most
\* `buffers` pulls after the stop request; once it has exited it completes
\* none.
C32_BoundedWorkAfterStop ==
    /\ [](cop \in {"Close", "Seek"} => arg.pulls <= buffers)
    /\ []((cop \in {"Close", "Seek"} /\ ~exited) =>
            arg.pulls + Len(reuse) + (IF gpc = "read" THEN 1 ELSE 0) <= buffers)
    /\ [][(cop \in {"Close", "Seek"} /\ cop' = cop) =>
            (Len(reuse') <= Len(reuse) /\ cur' = cur)]_vars
    /\ [][(cop \in {"Close", "Seek"} /\ cop' = cop /\ exited) =>
            (arg'.pulls = arg.pulls /\ in' = in)]_vars

\* C32 witness: with the deepest pool, Close was called with every buffer
\* idle; before it took the stop signal the goroutine completed a pull into
\* each of them, and it has now exited.
C32_Witness ==
    /\ buffers = MaxBuffers
    /\ cop = "Close"
    /\ cpc = "wait"
    /\ exited
    /\ arg.pulls = buffers
    /\ Len(ready) = buffers
====
